---- MODULE Spec2Model ----
(***************************************************************************)
(* Invoice generator of Contoso TCG (src/generator/invoices.py):           *)
(* validate_invoice_data, compute_totals, moneyfmt and generate_invoice,   *)
(* with the decimal arithmetic (decimal.Decimal, ROUND_HALF_UP) they use.  *)
(***************************************************************************)
EXTENDS Integers, Sequences, FiniteSets, TLC

VARIABLES
    data,        \* the invoice record (dict): present keys -> values
    items,       \* the list object data['items'] refers to: item dicts in order
    orig,        \* the record and the items exactly as the caller passed them
    pc,          \* position in the function that was called
    err,         \* the exception that left the function, NoErr if none
    i,           \* loop index of the for-loops over items
    tax_rate,    \* compute_totals' tax_rate argument
    subtotal,    \* compute_totals' running subtotal
    totals,      \* what compute_totals returned: <<subtotal, tax, total>>, or <<>>
    table_data,  \* rows of the items table, formatted
    story,       \* blocks appended to the document, in order
    fs,          \* file system: has the parent directory / the artifact been made
    locale,      \* the process locale left by the import-time setlocale
    amount,      \* moneyfmt's argument when it is called on its own
    result,      \* value returned to the caller, None if there is none (yet)
    calls,       \* how many times the caller has applied validate_invoice_data
    entry        \* the function the caller called

vars == <<data, items, orig, pc, err, i, tax_rate, subtotal, totals, table_data,
          story, fs, locale, amount, result, calls, entry>>

\* ------------------------------------------------------------------ bounds

\* Longest list of items the caller passes to compute_totals on its own.
MaxItems == 2
\* Longest list of items the caller passes to generate_invoice.
MaxInvoiceItems == 2
\* How many times the caller applies validate_invoice_data to one record.
MaxValidateCalls == 2

\* ------------------------------------------------------------------ values

\* A Python value that can sit in a field.  t is its type:
\*   "int"      an int
\*   "float"    a float whose repr is the decimal literal (s, c, e); d is the sign
\*              of (|the binary value| - |the literal|): floats are rarely exact
\*   "numstr"   a str that holds a decimal literal
\*   "fraction" a fractions.Fraction with an integral value (str() gives "n")
\*   "dec"      a decimal.Decimal
\*   "text"     a str that holds no number ("abc")
\*   "none"     None
\* The number is (-1)^s * c * 10^-e, as decimal.Decimal keeps it
\* (sign, coefficient, exponent).
Val(t, s, c, e, d) ==
    [t |-> t, s |-> s, c |-> c, e |-> e, d |-> d]

PyInt(n) ==
    Val("int", IF n < 0 THEN 1 ELSE 0, IF n < 0 THEN -n ELSE n, 0, 0)
PyFloat(s, c, e, d) ==
    Val("float", s, c, e, d)
PyStr(s, c, e) ==
    Val("numstr", s, c, e, 0)
PyFraction(n) ==
    Val("fraction", 0, n, 0, 0)
Dec(s, c, e) ==
    Val("dec", s, c, e, 0)
Text ==
    Val("text", 0, 0, 0, 0)
None ==
    Val("none", 0, 0, 0, 0)
\* A str whose content matters: a formatted amount, a note, an identifier.
Str(text) ==
    [t |-> "str", text |-> text]
\* A container: a list, a tuple or a dict.  The items list's content is the
\* variable items, which data['items'] refers to.
Obj(t) ==
    [t |-> t]

NoErr ==
    [cls |-> "", msg |-> ""]
Exc(cls, msg) ==
    [cls |-> cls, msg |-> msg]

\* A function's outcome: a value, or an exception.
Ok(v) ==
    [err |-> NoErr, val |-> v]
Raise(cls, msg) ==
    [err |-> Exc(cls, msg), val |-> None]

\* dict.get(k, default)
Get(dict, k, default) ==
    IF k \in DOMAIN dict THEN dict[k] ELSE default
\* dict[k] = v
Put(dict, k, v) ==
    [x \in DOMAIN dict \cup {k} |-> IF x = k THEN v ELSE dict[x]]
\* dict.setdefault(k, v)
SetDefault(dict, k, v) ==
    IF k \in DOMAIN dict THEN dict ELSE Put(dict, k, v)

\* ------------------------------------------------------- decimal.Decimal

RECURSIVE Pow10(_)
Pow10(n) ==
    IF n = 0 THEN 1 ELSE 10 * Pow10(n - 1)

Max(a, b) ==
    IF a >= b THEN a ELSE b

\* The signed coefficient of a decimal at exponent -e (e >= its own).
Signed(x, e) ==
    (IF x.s = 1 THEN -1 ELSE 1) * x.c * Pow10(e - x.e)

\* Decimal.__mul__: signs xor, coefficients multiply, exponents add.
DecMul(x, y) ==
    Dec((x.s + y.s) % 2, x.c * y.c, x.e + y.e)

\* Decimal.__add__: at the smaller exponent; a zero sum is negative only when
\* both operands are negative.
DecAdd(x, y) ==
    LET e == Max(x.e, y.e)
        n == Signed(x, e) + Signed(y, e)
    IN  IF n = 0
        THEN Dec(IF x.s = 1 /\ y.s = 1 THEN 1 ELSE 0, 0, e)
        ELSE Dec(IF n < 0 THEN 1 ELSE 0, IF n < 0 THEN -n ELSE n, e)

\* The coefficient of x cut to 2 decimals (x.e > 2), and the first digit
\* that cut discards, which is the digit ROUND_HALF_UP reads.  For a Decimal
\* made from a float the digits are those of the binary value: when that lies
\* nearer zero than the literal (x.d < 0), a literal tail of d000...
\* reads (d-1)999..., borrowing from the kept digits when d is 0.
Nearer0(x) ==
    x.d < 0 /\ x.c % Pow10(x.e - 3) = 0
Truncated(x) ==
    LET cut == x.c \div Pow10(x.e - 2)
    IN  IF Nearer0(x) /\ x.c % Pow10(x.e - 2) = 0 THEN cut - 1 ELSE cut
FirstDiscarded(x) ==
    LET dgt == (x.c \div Pow10(x.e - 3)) % 10
    IN  IF Nearer0(x) THEN (dgt + 9) % 10 ELSE dgt

\* The same cut under ROUND_HALF_EVEN, decimal's default rounding: an exact tie
\* goes to the even neighbour.
Quantize_HalfEven(x) ==
    IF x.e <= 2
    THEN Dec(x.s, x.c * Pow10(2 - x.e), 2)
    ELSE LET tie == (x.c % Pow10(x.e - 2)) * 2 = Pow10(x.e - 2) /\ x.d = 0
             up  == IF tie THEN Truncated(x) % 2 = 1 ELSE FirstDiscarded(x) >= 5
         IN  Dec(x.s, Truncated(x) + (IF up THEN 1 ELSE 0), 2)
\* x.quantize(Decimal('0.01'), rounding=ROUND_HALF_UP): pad with zeros, or cut
\* the coefficient and add one to it when the first discarded digit is 5..9.
\* The sign is kept, also on a zero result.
Quantize(x) ==
    IF x.e <= 2
    THEN Dec(x.s, x.c * Pow10(2 - x.e), 2)
    ELSE Dec(x.s, Truncated(x) + (IF FirstDiscarded(x) >= 5 THEN 1 ELSE 0), 2)

\* Decimal(str(v)), lines 39, 40 and 45: str() of a number is its literal;
\* str(None) is "None", which like any other text is no decimal literal.
DecimalOfStr(v) ==
    IF v.t \in {"int", "float", "numstr", "fraction", "dec"}
    THEN Ok(Dec(v.s, v.c, v.e))
    ELSE Raise("InvalidOperation", "[<class 'decimal.ConversionSyntax'>]")

\* Decimal(v), line 26: an int, a str and a Decimal convert exactly, a float
\* converts to its binary value, a str with no number in it raises
\* InvalidOperation, anything else (None, a Fraction) raises TypeError.
DecimalOf(v) ==
    IF v.t \in {"int", "numstr", "dec"} THEN Ok(Dec(v.s, v.c, v.e))
    ELSE IF v.t = "float" THEN Ok(Val("dec", v.s, v.c, v.e, v.d))
    ELSE IF v.t = "text"
    THEN Raise("InvalidOperation", "[<class 'decimal.ConversionSyntax'>]")
    ELSE Raise("TypeError", "conversion to Decimal is not supported")

\* ------------------------------------------------------------ formatting

Digits ==
    <<"0", "1", "2", "3", "4", "5", "6", "7", "8", "9">>

RECURSIVE NatStr(_)
NatStr(n) ==
    IF n < 10 THEN Digits[n + 1] ELSE NatStr(n \div 10) \o Digits[(n % 10) + 1]

\* n in exactly w digits, zero-padded (n < 10^w).
RECURSIVE Padded(_, _)
Padded(n, w) ==
    IF w = 0 THEN "" ELSE Padded(n \div 10, w - 1) \o Digits[(n % 10) + 1]

\* The thousands grouping of format spec ',' and of grouping=True in en_US.
RECURSIVE Grouped(_)
Grouped(n) ==
    IF n < 1000 THEN NatStr(n)
    ELSE Grouped(n \div 1000) \o "," \o Padded(n % 1000, 3)

\* f"${amt:,}" of a Decimal with 2 decimals, line 33: the sign follows the '$',
\* and a negative zero keeps its sign.
FixedFormat(amt) ==
    "$" \o (IF amt.s = 1 THEN "-" ELSE "")
        \o Grouped(amt.c \div 100) \o "." \o Padded(amt.c % 100, 2)

\* locale.currency(float(amt), grouping=True), line 31.  In the C locale it
\* raises ValueError; in en_US the sign precedes the '$', and float(-0.00) is
\* not below zero.
LocaleCurrency(amt, loc) ==
    IF loc = "C"
    THEN Raise("ValueError", "Currency formatting is not possible using the 'C' locale.")
    ELSE Ok(Str((IF amt.s = 1 /\ amt.c # 0 THEN "-" ELSE "") \o "$"
                \o Grouped(amt.c \div 100) \o "." \o Padded(amt.c % 100, 2)))

\* moneyfmt with the first try block's handler returning a default string.
MoneyFmt_Coerce(v, loc) ==
    LET conv == DecimalOf(v)
    IN  IF conv.err # NoErr
        THEN Ok(Str("$0.00"))
        ELSE LET amt == Quantize(conv.val)
                 cur == LocaleCurrency(amt, loc)
             IN  IF cur.err # NoErr THEN Ok(Str(FixedFormat(amt))) ELSE cur
\* moneyfmt(amount), lines 23-33.
MoneyFmt(v, loc) ==
    LET conv == DecimalOf(v)
    IN  IF conv.err # NoErr
        THEN Raise("ValueError", "Amount must be numeric")
        ELSE LET amt == Quantize(conv.val)
                 cur == LocaleCurrency(amt, loc)
             IN  IF cur.err # NoErr THEN Ok(Str(FixedFormat(amt))) ELSE cur

\* ------------------------------------------------------------ validation

\* required, line 52, in the order the loop walks it.
Required ==
    <<"invoice_number", "date", "bill_to", "items">>

\* The default tax_rate, the float 0.0 (lines 36, 59, 81).
DefaultTaxRate ==
    PyFloat(0, 0, 1, 0)

\* The first required key absent from d, "" if there is none (lines 53-54).
RECURSIVE FirstMissingFrom(_, _)
FirstMissingFrom(d, k) ==
    IF k > Len(Required) THEN ""
    ELSE IF Required[k] \notin DOMAIN d THEN Required[k]
    ELSE FirstMissingFrom(d, k + 1)
FirstMissing(d) ==
    FirstMissingFrom(d, 1)

\* Lines 59-61.
Normalized_Overwrite(d) ==
    Put(Put(Put(d, "tax_rate", DefaultTaxRate), "due_date", None), "notes", Str(""))
Normalized(d) ==
    SetDefault(SetDefault(SetDefault(d, "tax_rate", DefaultTaxRate),
                          "due_date", None), "notes", Str(""))

\* validate_invoice_data filling the defaults in before it checks anything.
ValidateInvoiceData_DefaultsFirst(d) ==
    IF FirstMissing(d) # ""
    THEN [err |-> Exc("ValueError", "Missing required invoice field: " \o FirstMissing(d)),
          data |-> Normalized(d)]
    ELSE IF d["items"].t # "list"
    THEN [err |-> Exc("ValueError", "items must be a list"), data |-> Normalized(d)]
    ELSE [err |-> NoErr, data |-> Normalized(d)]
\* validate_invoice_data with the isinstance test widened to (list, tuple).
ValidateInvoiceData_AnySequence(d) ==
    IF FirstMissing(d) # ""
    THEN [err |-> Exc("ValueError", "Missing required invoice field: " \o FirstMissing(d)),
          data |-> d]
    ELSE IF d["items"].t \notin {"list", "tuple"}
    THEN [err |-> Exc("ValueError", "items must be a list"), data |-> d]
    ELSE [err |-> NoErr, data |-> Normalized(d)]
\* validate_invoice_data walking required from its last key to its first.
ValidateInvoiceData_LastMissing(d) ==
    LET miss == {k \in 1..Len(Required) : Required[k] \notin DOMAIN d}
        last == CHOOSE k \in miss : \A j \in miss : j <= k
    IN  IF miss # {}
        THEN [err |-> Exc("ValueError", "Missing required invoice field: " \o Required[last]),
              data |-> d]
        ELSE IF d["items"].t # "list"
        THEN [err |-> Exc("ValueError", "items must be a list"), data |-> d]
        ELSE [err |-> NoErr, data |-> Normalized(d)]
\* validate_invoice_data(data), lines 51-62: the exception raised, and the
\* record as the call leaves it (the same dict, mutated in place).
ValidateInvoiceData(d) ==
    IF FirstMissing(d) # ""
    THEN [err |-> Exc("ValueError", "Missing required invoice field: " \o FirstMissing(d)),
          data |-> d]
    ELSE IF d["items"].t # "list"
    THEN [err |-> Exc("ValueError", "items must be a list"), data |-> d]
    ELSE [err |-> NoErr, data |-> Normalized(d)]

\* ---------------------------------------------------------------- totals

\* Line 37.
ZeroSubtotal ==
    Dec(0, 0, 2)

\* The loop body with the product left unrounded until the final subtotal.
ItemStep_RoundAfterSum(it, sub) ==
    LET qty  == DecimalOfStr(Get(it, "qty", PyInt(0)))
        unit == DecimalOfStr(Get(it, "unit_price", PyStr(0, 0, 2)))
    IN  IF qty.err # NoErr THEN [err |-> qty.err, item |-> it, subtotal |-> sub]
        ELSE IF unit.err # NoErr THEN [err |-> unit.err, item |-> it, subtotal |-> sub]
        ELSE [err |-> NoErr,
              item |-> Put(it, "_line_total", Quantize(DecMul(qty.val, unit.val))),
              subtotal |-> DecAdd(sub, DecMul(qty.val, unit.val))]
\* The loop body with a line total already on the item kept.
ItemStep_KeepPreset(it, sub) ==
    LET qty  == DecimalOfStr(Get(it, "qty", PyInt(0)))
        unit == DecimalOfStr(Get(it, "unit_price", PyStr(0, 0, 2)))
        line == Quantize(DecMul(qty.val, unit.val))
    IN  IF qty.err # NoErr THEN [err |-> qty.err, item |-> it, subtotal |-> sub]
        ELSE IF unit.err # NoErr THEN [err |-> unit.err, item |-> it, subtotal |-> sub]
        ELSE [err |-> NoErr,
              item |-> SetDefault(it, "_line_total", line),
              subtotal |-> DecAdd(sub, line)]
\* The loop body of compute_totals, lines 39-43, on item it with the running
\* subtotal sub: the exception raised, the item and the subtotal it leaves.
ItemStep(it, sub) ==
    LET qty  == DecimalOfStr(Get(it, "qty", PyInt(0)))
        unit == DecimalOfStr(Get(it, "unit_price", PyStr(0, 0, 2)))
        line == Quantize(DecMul(qty.val, unit.val))
    IN  IF qty.err # NoErr THEN [err |-> qty.err, item |-> it, subtotal |-> sub]
        ELSE IF unit.err # NoErr THEN [err |-> unit.err, item |-> it, subtotal |-> sub]
        ELSE [err |-> NoErr,
              item |-> Put(it, "_line_total", line),
              subtotal |-> DecAdd(sub, line)]

\* Lines 44-48 with the tax quantized under decimal's default rounding.
TotalsTail_TaxHalfEven(sub, rate) ==
    LET st == Quantize(sub)
        tr == DecimalOfStr(rate)
        tx == Quantize_HalfEven(DecMul(st, tr.val))
    IN  IF tr.err # NoErr THEN Raise(tr.err.cls, tr.err.msg)
        ELSE Ok(<<st, tx, Quantize(DecAdd(st, tx))>>)
\* Lines 44-48 of compute_totals: the exception raised, or the returned
\* (subtotal, tax, total).
TotalsTail(sub, rate) ==
    LET st == Quantize(sub)
        tr == DecimalOfStr(rate)
        tx == Quantize(DecMul(st, tr.val))
    IN  IF tr.err # NoErr THEN Raise(tr.err.cls, tr.err.msg)
        ELSE Ok(<<st, tx, Quantize(DecAdd(st, tx))>>)

\* Where control goes when compute_totals returns.
AfterTotals ==
    IF entry = "generate_invoice" THEN "layout" ELSE "returned"

\* One pass of the for-loop of compute_totals, lines 38-43.
ComputeItem ==
    /\ pc = "totals_loop"
    /\ i <= Len(items)
    /\ LET r == ItemStep(items[i], subtotal)
       IN  IF r.err # NoErr
           THEN /\ pc' = "raised"
                /\ err' = r.err
                /\ UNCHANGED <<items, subtotal, i>>
           ELSE /\ items' = [items EXCEPT ![i] = r.item]
                /\ subtotal' = r.subtotal
                /\ i' = i + 1
                /\ UNCHANGED <<pc, err>>
    /\ UNCHANGED <<data, orig, tax_rate, totals, table_data, story, fs, locale,
                   amount, result, calls, entry>>

\* The loop is exhausted: lines 44-48, and the return.
ComputeTail ==
    /\ pc = "totals_loop"
    /\ i > Len(items)
    /\ LET r == TotalsTail(subtotal, tax_rate)
       IN  IF r.err # NoErr
           THEN /\ pc' = "raised"
                /\ err' = r.err
                /\ UNCHANGED <<subtotal, totals>>
           ELSE /\ pc' = AfterTotals
                /\ subtotal' = r.val[1]
                /\ totals' = r.val
                /\ UNCHANGED err
    /\ UNCHANGED <<data, items, orig, i, tax_rate, table_data, story, fs, locale,
                   amount, result, calls, entry>>

\* ------------------------------------------- the functions called directly

\* The caller applies validate_invoice_data(data) to its record, lines 51-62,
\* and again to what it returned.  The return value is the argument itself.
CallValidate ==
    /\ entry = "validate_invoice_data"
    /\ pc = "call"
    /\ calls < MaxValidateCalls
    /\ LET r == ValidateInvoiceData(data)
       IN  /\ data' = r.data
           /\ err' = r.err
           /\ pc' = IF r.err # NoErr THEN "raised" ELSE "call"
           /\ result' = IF r.err # NoErr THEN None ELSE Obj("the argument")
    /\ calls' = calls + 1
    /\ UNCHANGED <<items, orig, i, tax_rate, subtotal, totals, table_data, story,
                   fs, locale, amount, entry>>

\* The caller applies moneyfmt(amount), lines 23-33.
CallMoneyFmt ==
    /\ entry = "moneyfmt"
    /\ pc = "call"
    /\ LET r == MoneyFmt(amount, locale)
       IN  /\ err' = r.err
           /\ result' = r.val
           /\ pc' = IF r.err # NoErr THEN "raised" ELSE "returned"
    /\ UNCHANGED <<data, items, orig, i, tax_rate, subtotal, totals, table_data,
                   story, fs, locale, amount, calls, entry>>

\* ------------------------------------------------------ generate_invoice

\* str(v) of a number: its literal.
LiteralStr(v) ==
    (IF v.s = 1 THEN "-" ELSE "")
        \o NatStr(v.c \div Pow10(v.e))
        \o (IF v.e = 0 THEN "" ELSE "." \o Padded(v.c % Pow10(v.e), v.e))
\* str(qty), line 147.
StrOf(v) ==
    IF v.t = "text" THEN "abc"
    ELSE IF v.t = "none" THEN "None"
    ELSE LiteralStr(v)

\* bool(v) of an optional field as lines 106 and 176 test it.
Truthy(v) ==
    v.t = "str" /\ v.text # ""

\* f"Tax ({tax_rate*100:.1f}%):", line 152, for an int, a float or a Decimal of
\* at most 3 decimals, or a str: a str times 100 is a str, which the format
\* code f rejects.
TaxLabel(rate) ==
    IF rate.t # "numstr"
    THEN LET tenths == rate.c * Pow10(3 - rate.e)
         IN  Ok(Str("Tax (" \o (IF rate.s = 1 /\ tenths # 0 THEN "-" ELSE "")
                    \o NatStr(tenths \div 10) \o "." \o Digits[(tenths % 10) + 1]
                    \o "%):"))
    ELSE Raise("ValueError", "Unknown format code 'f' for object of type 'str'")

\* Lines 78-82, up to the call of compute_totals: validation, then items and
\* tax_rate are read from the record and compute_totals starts (line 37).
GenValidate ==
    /\ entry = "generate_invoice"
    /\ pc = "validate"
    /\ LET r == ValidateInvoiceData(data)
       IN  /\ data' = r.data
           /\ IF r.err # NoErr
              THEN /\ pc' = "raised"
                   /\ err' = r.err
                   /\ UNCHANGED <<tax_rate, subtotal, i>>
              ELSE /\ pc' = "totals_loop"
                   /\ tax_rate' = Get(r.data, "tax_rate", DefaultTaxRate)
                   /\ subtotal' = ZeroSubtotal
                   /\ i' = 1
                   /\ UNCHANGED err
    /\ UNCHANGED <<items, orig, totals, table_data, story, fs, locale, amount,
                   result, calls, entry>>

\* Lines 85-138 with the output directory made as the document is set up.
GenLayoutHead_MakeDirsFirst ==
    /\ pc = "layout"
    /\ fs' = [fs EXCEPT !.dir = TRUE]
    /\ story' = <<"letterhead",
                  IF Truthy(Get(data, "due_date", None))
                  THEN "meta with due date" ELSE "meta",
                  "bill to">>
    /\ table_data' = <<[desc |-> "Description", qty |-> "Qty",
                        unit |-> "Unit price", line |-> "Line total"]>>
    /\ i' = 1
    /\ pc' = "rows"
    /\ UNCHANGED <<data, items, orig, err, tax_rate, subtotal, totals, locale,
                   amount, result, calls, entry>>
\* Lines 85-138: the document is set up (nothing is opened or written), the
\* letterhead, the metadata (with the due date if there is one) and the
\* billing address are laid out, and the items table gets its header row.
GenLayoutHead ==
    /\ pc = "layout"
    /\ story' = <<"letterhead",
                  IF Truthy(Get(data, "due_date", None))
                  THEN "meta with due date" ELSE "meta",
                  "bill to">>
    /\ table_data' = <<[desc |-> "Description", qty |-> "Qty",
                        unit |-> "Unit price", line |-> "Line total"]>>
    /\ i' = 1
    /\ pc' = "rows"
    /\ UNCHANGED <<data, items, orig, err, tax_rate, subtotal, totals, fs, locale,
                   amount, result, calls, entry>>

\* One row of the items table, lines 140-148: the exception raised, or the row.
RenderRow(it, loc) ==
    LET qty   == Get(it, "qty", PyInt(0))
        unit  == Get(it, "unit_price", PyInt(0))
        lt    == Get(it, "_line_total", None)
        q2    == DecimalOfStr(qty)
        u2    == DecimalOfStr(unit)
        ufmt  == MoneyFmt(unit, loc)
        lfmt  == MoneyFmt(IF lt = None THEN DecMul(q2.val, u2.val) ELSE lt, loc)
    IN  IF lt = None /\ q2.err # NoErr THEN Raise(q2.err.cls, q2.err.msg)
        ELSE IF lt = None /\ u2.err # NoErr THEN Raise(u2.err.cls, u2.err.msg)
        ELSE IF ufmt.err # NoErr THEN Raise(ufmt.err.cls, ufmt.err.msg)
        ELSE IF lfmt.err # NoErr THEN Raise(lfmt.err.cls, lfmt.err.msg)
        ELSE Ok([desc |-> "", qty |-> StrOf(qty), unit |-> ufmt.val.text,
                 line |-> lfmt.val.text])

\* One pass of the for-loop over items, lines 139-148.
GenRenderRow ==
    /\ pc = "rows"
    /\ i <= Len(items)
    /\ LET r == RenderRow(items[i], locale)
       IN  IF r.err # NoErr
           THEN /\ pc' = "raised"
                /\ err' = r.err
                /\ UNCHANGED <<table_data, i>>
           ELSE /\ table_data' = Append(table_data, r.val)
                /\ i' = i + 1
                /\ UNCHANGED <<pc, err>>
    /\ UNCHANGED <<data, items, orig, tax_rate, subtotal, totals, story, fs,
                   locale, amount, result, calls, entry>>

\* The three totals rows, lines 151-153: the exception raised, or the rows.
TotalsRows(tot, rate, loc) ==
    LET sfmt == MoneyFmt(tot[1], loc)
        lbl  == TaxLabel(rate)
        xfmt == MoneyFmt(tot[2], loc)
        tfmt == MoneyFmt(tot[3], loc)
    IN  IF sfmt.err # NoErr THEN Raise(sfmt.err.cls, sfmt.err.msg)
        ELSE IF lbl.err # NoErr THEN Raise(lbl.err.cls, lbl.err.msg)
        ELSE IF xfmt.err # NoErr THEN Raise(xfmt.err.cls, xfmt.err.msg)
        ELSE IF tfmt.err # NoErr THEN Raise(tfmt.err.cls, tfmt.err.msg)
        ELSE Ok(<<[desc |-> "", qty |-> "", unit |-> "Subtotal:",
                   line |-> sfmt.val.text],
                  [desc |-> "", qty |-> "", unit |-> lbl.val.text,
                   line |-> xfmt.val.text],
                  [desc |-> "", qty |-> "", unit |-> "<b>Total:</b>",
                   line |-> "<b>" \o tfmt.val.text \o "</b>"]>>)

\* The loop is exhausted: the totals rows, then lines 155-184, the table, the
\* notes if there are any, and the footer join the story.
GenTotalsRows ==
    /\ pc = "rows"
    /\ i > Len(items)
    /\ LET r == TotalsRows(totals, tax_rate, locale)
       IN  IF r.err # NoErr
           THEN /\ pc' = "raised"
                /\ err' = r.err
                /\ UNCHANGED <<table_data, story>>
           ELSE /\ table_data' = table_data \o r.val
                /\ story' = story \o <<"items table">>
                              \o (IF Truthy(Get(data, "notes", Str("")))
                                  THEN <<"notes">> ELSE <<>>)
                              \o <<"footer">>
                /\ pc' = "makedirs"
                /\ UNCHANGED err
    /\ UNCHANGED <<data, items, orig, i, tax_rate, subtotal, totals, fs, locale,
                   amount, result, calls, entry>>

\* os.makedirs(..., exist_ok=True), line 187: the directory is there
\* afterwards, or the call raises OSError.
GenMakeDirs ==
    /\ pc = "makedirs"
    /\ \/ /\ fs' = [fs EXCEPT !.dir = TRUE]
          /\ pc' = "build"
          /\ UNCHANGED err
       \/ /\ fs.dir = FALSE
          /\ err' = Exc("OSError", "makedirs failed")
          /\ pc' = "raised"
          /\ UNCHANGED fs
    /\ UNCHANGED <<data, items, orig, i, tax_rate, subtotal, totals, table_data,
                   story, locale, amount, result, calls, entry>>

\* doc.build(story), line 188: the artifact is written, or the write fails and
\* may leave a part of it.
GenBuild ==
    /\ pc = "build"
    /\ \/ /\ fs' = [fs EXCEPT !.file = "complete"]
          /\ pc' = "done"
          /\ UNCHANGED err
       \/ /\ \E f \in {"none", "partial"} : fs' = [fs EXCEPT !.file = f]
          /\ err' = Exc("OSError", "write failed")
          /\ pc' = "raised"
    /\ UNCHANGED <<data, items, orig, i, tax_rate, subtotal, totals, table_data,
                   story, locale, amount, result, calls, entry>>

\* ------------------------------------------------------------- the inputs

\* Marks a key the caller left out of a dict.
Absent ==
    [t |-> "absent"]
\* The dict holding the keys of f that are not marked Absent.
MkDict(f) ==
    [k \in {x \in DOMAIN f : f[x] # Absent} |-> f[k]]
EmptyDict ==
    [k \in {} |-> None]
\* The lists of at most n elements of S.
ListsOf(S, n) ==
    UNION {[1..k -> S] : k \in 0..n}

\* Tax rates: the int 0, the floats 0.075 and 1.5, the str "0.5", and a text.
TaxRates ==
    {PyInt(0), PyFloat(0, 75, 3, -1), PyFloat(0, 15, 1, 0), PyStr(0, 5, 1), Text}

\* Records the caller passes: every subset of the seven keys, items of every
\* type, every tax rate.
RawRecords ==
    [invoice_number : {Absent, Str("CTCG-2025-0001")},
     date           : {Absent, Str("2025-01-31")},
     bill_to        : {Absent, Obj("dict")},
     items          : {Absent, Obj("list"), Obj("tuple"), Obj("dict"), None},
     tax_rate       : {Absent} \cup TaxRates,
     due_date       : {Absent, Str("2025-02-28")},
     notes          : {Absent, Str("All cards sold as-is.")}]

\* Whether the record holds the four required keys and a sequence of items.
HoldsItems(rec) ==
    /\ \A k \in 1..Len(Required) : rec[Required[k]] # Absent
    /\ rec.items \in {Obj("list"), Obj("tuple")}

\* Items of an invoice: qty 3, a text, or left out; unit price the float
\* 10.005 (whose binary value is above 10.005) or Fraction(5); a line total
\* the caller preset to None or to 9.99, or none.
InvoiceItems ==
    {MkDict(f) : f \in [qty         : {Absent, PyInt(3), Text},
                        unit_price  : {PyFloat(0, 10005, 3, 1), PyFraction(5)},
                        _line_total : {Absent, None, Dec(0, 999, 2)}]}

\* Items handed to compute_totals: qty 3, 1, -1, a text, or left out; unit
\* price the float 10.005, the str "0.005", the float 0.125, a text, or left out.
TotalsItems ==
    {MkDict(f) : f \in [qty        : {Absent, PyInt(3), PyInt(1), PyInt(-1), Text},
                        unit_price : {Absent, PyFloat(0, 10005, 3, 1),
                                      PyStr(0, 5, 3), PyFloat(0, 125, 3, 0), Text}]}

\* Amounts handed to moneyfmt: ints, floats, strs and Decimals of both signs,
\* a text, None and a Fraction.
Amounts ==
    {Val(t, s, c, 0, 0) : t \in {"numstr", "dec"}, s \in {0, 1},
                          c \in {0, 7, 1234, 1234567}}
    \cup {PyInt(n) : n \in {0, 7, -7, 1234, -1234, 1234567, -1234567}}
    \cup {Val(t, s, c, 3, 0) : t \in {"numstr", "dec"}, s \in {0, 1},
                               c \in {4, 5, 125, 1234565, 999995}}
    \cup {PyFloat(s, 125, 3, 0) : s \in {0, 1}}
    \cup {PyFloat(s, 10005, 3, 1) : s \in {0, 1}}
    \cup {PyFloat(s, 1005, 3, -1) : s \in {0, 1}}
    \cup {PyFloat(s, 5, 3, 1) : s \in {0, 1}}
    \cup {PyFloat(s, 25, 1, 0) : s \in {0, 1}}
    \cup {Text, None, PyFraction(5)}

\* The locale the import-time setlocale(LC_ALL, '') left (lines 17-20): the
\* user's, or C when it failed.
Locales ==
    {"C", "en_US"}

\* What every call starts from.
Idle ==
    /\ err = NoErr
    /\ totals = <<>>
    /\ table_data = <<>>
    /\ story = <<>>
    /\ fs = [dir |-> FALSE, file |-> "none"]
    /\ result = None
    /\ calls = 0
    /\ orig = [data |-> data, items |-> items]

\* generate_invoice(invoice_data, filename) is called.
Init ==
    /\ entry = "generate_invoice"
    /\ pc = "validate"
    /\ \E rec \in RawRecords :
          /\ data = MkDict(rec)
          /\ items \in IF HoldsItems(rec)
                       THEN ListsOf(InvoiceItems, MaxInvoiceItems)
                       ELSE {<<>>}
    /\ locale \in Locales
    /\ i = 0
    /\ tax_rate = None
    /\ subtotal = None
    /\ amount = None
    /\ Idle

Next ==
    \/ GenValidate
    \/ ComputeItem
    \/ ComputeTail
    \/ GenLayoutHead
    \/ GenRenderRow
    \/ GenTotalsRows
    \/ GenMakeDirs
    \/ GenBuild

Spec ==
    Init /\ [][Next]_vars

\* compute_totals(items, tax_rate) is called, tax_rate defaulting to 0.0.
InitTotals ==
    /\ entry = "compute_totals"
    /\ pc = "totals_loop"
    /\ data = EmptyDict
    /\ items \in ListsOf(TotalsItems, MaxItems)
    /\ tax_rate \in {DefaultTaxRate} \cup TaxRates
    /\ locale = "C"
    /\ i = 1
    /\ subtotal = ZeroSubtotal
    /\ amount = None
    /\ Idle

NextTotals ==
    \/ ComputeItem
    \/ ComputeTail

SpecTotals ==
    InitTotals /\ [][NextTotals]_vars

\* validate_invoice_data(data) is called.
InitValidate ==
    /\ entry = "validate_invoice_data"
    /\ pc = "call"
    /\ \E rec \in RawRecords : data = MkDict(rec)
    /\ items = <<>>
    /\ locale = "C"
    /\ i = 0
    /\ tax_rate = None
    /\ subtotal = None
    /\ amount = None
    /\ Idle

NextValidate ==
    CallValidate

SpecValidate ==
    InitValidate /\ [][NextValidate]_vars

\* moneyfmt(amount) is called.
InitMoney ==
    /\ entry = "moneyfmt"
    /\ pc = "call"
    /\ data = EmptyDict
    /\ items = <<>>
    /\ amount \in Amounts
    /\ locale \in Locales
    /\ i = 0
    /\ tax_rate = None
    /\ subtotal = None
    /\ Idle

NextMoney ==
    CallMoneyFmt

SpecMoney ==
    InitMoney /\ [][NextMoney]_vars

\* ------------------------------------------------------------ properties

\* Half-up rounding to cents of the number n / 10^e: the integer number of
\* cents nearest to it, a tie going away from zero.
HalfUpCents(n, e) ==
    LET mag == IF n < 0 THEN -n ELSE n
        c   == (200 * mag + Pow10(e)) \div (2 * Pow10(e))
    IN  IF n < 0 THEN -c ELSE c

\* The number a qty, unit price or tax rate stands for, as n / 10^e.
NumOf(v) ==
    IF v.s = 1 THEN -v.c ELSE v.c

\* A value that cannot be interpreted as a number: a text, or None.
NonNumeric(v) ==
    v.t \in {"text", "none"}

\* qty x unitPrice of the item as the caller passed it, rounded half-up to
\* cents, a missing qty taken as 0 and a missing unitPrice as 0.00.
ExpectedLineCents(it) ==
    LET q == Get(it, "qty", PyInt(0))
        u == Get(it, "unit_price", PyStr(0, 0, 2))
    IN  HalfUpCents(NumOf(q) * NumOf(u), q.e + u.e)

RECURSIVE SumLineCents(_, _)
SumLineCents(its, k) ==
    IF k = 0 THEN 0 ELSE SumLineCents(its, k - 1) + ExpectedLineCents(its[k])

\* A Decimal of exactly 2 decimals worth n cents.
IsCents(x, n) ==
    x.t = "dec" /\ x.e = 2 /\ Signed(x, 2) = n

\* C1: when compute_totals returns, every item's stored line total is
\* qty x unitPrice rounded half-up to 2 decimals (missing qty 0, missing
\* unitPrice 0.00), and the returned subtotal is the sum of those rounded line
\* totals, at 2 decimals.
C1_LineTotalsAndSubtotal ==
    (entry = "compute_totals" /\ pc = "returned") =>
        /\ \A k \in 1..Len(items) :
              /\ "_line_total" \in DOMAIN items[k]
              /\ IsCents(items[k]["_line_total"], ExpectedLineCents(orig.items[k]))
        /\ IsCents(totals[1], SumLineCents(orig.items, Len(items)))

\* 3 x 10.005 gives 30.02, and with 1 x 0.005 (0.01) the subtotal is 30.03,
\* a cent above the rounded raw sum 30.020.
C1_Witness ==
    /\ entry = "compute_totals" /\ pc = "returned"
    /\ Len(orig.items) = 2
    /\ orig.items[1] = [qty |-> PyInt(3), unit_price |-> PyFloat(0, 10005, 3, 1)]
    /\ orig.items[2] = [qty |-> PyInt(1), unit_price |-> PyStr(0, 5, 3)]
    /\ items[1]["_line_total"] = Dec(0, 3002, 2)
    /\ totals[1] = Dec(0, 3003, 2)

\* C2: the figures compute_totals returns satisfy
\* tax = round_half_up(subtotal x taxRate, 2) and total = subtotal + tax,
\* exactly, for every tax rate, the default 0.0, an explicit 0 and rates above
\* 1 included.
C2_TaxAndTotal ==
    (entry = "compute_totals" /\ pc = "returned") =>
        LET sub == Signed(totals[1], 2)
            tax == HalfUpCents(sub * NumOf(tax_rate), 2 + tax_rate.e)
        IN  /\ IsCents(totals[2], tax)
            /\ IsCents(totals[3], sub + tax)

\* Subtotal 0.03 at the rate 1.5: the tax 0.045 rounds up to 0.05.
C2_Witness ==
    /\ entry = "compute_totals" /\ pc = "returned"
    /\ tax_rate = PyFloat(0, 15, 1, 0)
    /\ totals = <<Dec(0, 3, 2), Dec(0, 5, 2), Dec(0, 8, 2)>>

\* The order in which the required fields are checked.
FieldOrder ==
    <<"invoice_number", "date", "bill_to", "items">>
AbsentFields(d) ==
    {k \in 1..Len(FieldOrder) : FieldOrder[k] \notin DOMAIN d}
FirstAbsent(d) ==
    FieldOrder[CHOOSE k \in AbsentFields(d) : \A j \in AbsentFields(d) : k <= j]
\* The error that reports field k missing.
MissingFieldError(k) ==
    Exc("ValueError", "Missing required invoice field: " \o k)
\* The error that reports items of the wrong type.
TypeMismatchError ==
    Exc("ValueError", "items must be a list")

\* C3: validate fails with a MissingFieldError whenever a required field is
\* absent, and the error names the first absent one in the order
\* invoiceNumber, date, billTo, items, whatever else the record holds.
C3_FirstMissingField ==
    (entry = "validate_invoice_data" /\ calls >= 1 /\ AbsentFields(orig.data) # {}) =>
        /\ pc = "raised"
        /\ err = MissingFieldError(FirstAbsent(orig.data))

\* date and billTo are absent, items is a tuple: the error names date.
C3_Witness ==
    /\ entry = "validate_invoice_data" /\ calls = 1
    /\ AbsentFields(orig.data) = {2, 3}
    /\ orig.data["items"] = Obj("tuple")
    /\ "tax_rate" \in DOMAIN orig.data
    /\ err = MissingFieldError("date")

\* C4 as stated: with the four required fields present, validate fails with a
\* TypeMismatchError exactly when items is not a sequence type, a list and a
\* tuple both being sequences.
C4_AnySequenceAccepted ==
    (entry = "validate_invoice_data" /\ calls >= 1 /\ AbsentFields(orig.data) = {}) =>
        (err = TypeMismatchError <=> orig.data["items"].t \notin {"list", "tuple"})

\* C4, amended: with the four required fields present, validate fails with a
\* TypeMismatchError exactly when items is not a list; every list is accepted,
\* and every other value, a tuple included, is rejected.
C4_OnlyListAccepted ==
    (entry = "validate_invoice_data" /\ calls >= 1 /\ AbsentFields(orig.data) = {}) =>
        /\ err = TypeMismatchError <=> orig.data["items"].t # "list"
        /\ err = NoErr <=> orig.data["items"].t = "list"

\* A complete record whose items is a tuple is rejected.
C4_Witness ==
    /\ entry = "validate_invoice_data" /\ calls = 1
    /\ AbsentFields(orig.data) = {}
    /\ orig.data["items"] = Obj("tuple")
    /\ pc = "raised" /\ err = TypeMismatchError

\* The record d with taxRate 0.0, dueDate null and notes "" added where d
\* does not hold them.
WithDefaults(d) ==
    [k \in DOMAIN d \cup {"tax_rate", "due_date", "notes"} |->
        IF k \in DOMAIN d THEN d[k]
        ELSE IF k = "tax_rate" THEN PyFloat(0, 0, 1, 0)
        ELSE IF k = "due_date" THEN None
        ELSE Str("")]

\* C5: on success validate returns the record it was given, with taxRate,
\* dueDate and notes set to 0.0, null and "" exactly when they were absent,
\* and every field that was present unchanged; a second application leaves
\* the same record.
C5_DefaultsOnlyWhereAbsent ==
    (entry = "validate_invoice_data" /\ calls >= 1 /\ err = NoErr) =>
        /\ result = Obj("the argument")
        /\ data = WithDefaults(orig.data)

\* Validated twice: the explicit int 0 is kept, notes was absent and is "".
C5_Witness ==
    /\ entry = "validate_invoice_data" /\ calls = 2 /\ err = NoErr
    /\ "tax_rate" \in DOMAIN orig.data
    /\ orig.data["tax_rate"] = PyInt(0)
    /\ DOMAIN orig.data \cap {"due_date", "notes"} = {}
    /\ data["tax_rate"] = PyInt(0)
    /\ data["notes"] = Str("")

\* C6 as stated: whenever an item's qty or unitPrice cannot be interpreted as
\* a number, compute_totals fails, returns no totals, and the failure is the
\* error moneyfmt raises for a non-numeric amount.
C6_FailsLikeMoneyFmt ==
    (/\ entry = "compute_totals"
     /\ pc # "totals_loop"
     /\ \E k \in 1..Len(orig.items) :
           \/ NonNumeric(Get(orig.items[k], "qty", PyInt(0)))
           \/ NonNumeric(Get(orig.items[k], "unit_price", PyStr(0, 0, 2)))) =>
        /\ pc = "raised"
        /\ totals = <<>>
        /\ err = MoneyFmt(Text, locale).err

\* The '$'-prefixed grouped string of the amount's half-up 2-decimal value.
\* A float stands for its binary value, which at a literal tie lies on one
\* side of it.
ExpectedFixed(v) ==
    LET tie   == v.e > 2 /\ (v.c % Pow10(v.e - 2)) * 2 = Pow10(v.e - 2)
        cents == HalfUpCents(v.c, v.e) - (IF tie /\ v.d < 0 THEN 1 ELSE 0)
    IN  "$" \o (IF v.s = 1 THEN "-" ELSE "")
            \o Grouped(cents \div 100) \o "." \o Padded(cents % 100, 2)

\* C7: moneyfmt fails with an InvalidAmountError for every input that cannot
\* be interpreted as a number and returns no string for it; when the amount
\* is a number and only the locale-aware formatting fails, it returns the
\* '$'-prefixed grouped string of the half-up 2-decimal value.
C7_MoneyFmtFailsOnNonNumeric ==
    (entry = "moneyfmt" /\ pc # "call") =>
        /\ NonNumeric(amount) =>
              /\ pc = "raised"
              /\ err = Exc("ValueError", "Amount must be numeric")
              /\ result = None
        /\ (amount.t \in {"int", "float", "numstr", "dec"} /\ locale = "C") =>
              /\ pc = "returned"
              /\ err = NoErr
              /\ result = Str(ExpectedFixed(amount))

\* moneyfmt("abc") has raised.
C7_Witness ==
    /\ entry = "moneyfmt" /\ pc = "raised"
    /\ amount = Text
    /\ err.cls = "ValueError"

\* An error of validation.
ValidationError(e) ==
    \/ e = TypeMismatchError
    \/ \E k \in 1..Len(FieldOrder) : e = MissingFieldError(FieldOrder[k])

\* C8: when generate_invoice fails in validation, the record and its items
\* are exactly as the caller passed them (no default inserted, no line total
\* attached) and compute_totals has not started.
C8_ValidationFailureLeavesRecord ==
    (entry = "generate_invoice" /\ pc = "raised" /\ ValidationError(err)) =>
        /\ data = orig.data
        /\ items = orig.items
        /\ subtotal = None /\ tax_rate = None /\ i = 0
        /\ totals = <<>>

\* items is a tuple of one item: rejected, with no taxRate inserted and no
\* line total attached.
C8_Witness ==
    /\ entry = "generate_invoice" /\ pc = "raised"
    /\ err = TypeMismatchError
    /\ "tax_rate" \notin DOMAIN data
    /\ Len(items) = 1
    /\ "_line_total" \notin DOMAIN items[1]

\* C9: whenever generate_invoice is in the item-table loop, every item carries
\* the line total compute_totals attached (also where the caller preset the
\* field to null or to another value), so the recompute branch is not taken,
\* and every row rendered so far shows that rounded value, in item order.
C9_RowsReuseAttachedLineTotal ==
    (entry = "generate_invoice" /\ pc = "rows") =>
        /\ \A k \in 1..Len(items) :
              /\ "_line_total" \in DOMAIN items[k]
              /\ items[k]["_line_total"] # None
              /\ IsCents(items[k]["_line_total"], ExpectedLineCents(orig.items[k]))
        /\ Len(table_data) = i
        /\ \A k \in 1..(i - 1) :
              table_data[k + 1].line
                  = MoneyFmt(Dec(IF ExpectedLineCents(orig.items[k]) < 0 THEN 1 ELSE 0,
                                 IF ExpectedLineCents(orig.items[k]) < 0
                                 THEN -ExpectedLineCents(orig.items[k])
                                 ELSE ExpectedLineCents(orig.items[k]), 2),
                             locale).val.text

\* Two rows are rendered; the caller had preset the first item's line total
\* to null and the second's to 9.99, and both rows show 30.02.
C9_Witness ==
    /\ entry = "generate_invoice" /\ pc = "rows" /\ i = 3
    /\ locale = "C"
    /\ Get(orig.items[1], "_line_total", Absent) = None
    /\ Get(orig.items[2], "_line_total", Absent) = Dec(0, 999, 2)
    /\ table_data[2].line = "$30.02"
    /\ table_data[3].line = "$30.02"

\* The file system as generate_invoice found it.
Untouched ==
    fs = [dir |-> FALSE, file |-> "none"]

\* C10: the parent directory is made and the artifact written only after
\* validation and totals have succeeded and every table row is formatted; a
\* run that fails in validate, in compute_totals or in formatting leaves no
\* directory and no artifact behind.
C10_NoOutputBeforeAllFormatted ==
    entry = "generate_invoice" =>
        /\ ~Untouched =>
              /\ totals # <<>>
              /\ Len(table_data) = Len(items) + 4
              /\ data = WithDefaults(orig.data)
        /\ (pc = "raised" /\ err.cls # "OSError") => Untouched
        /\ pc \in {"validate", "totals_loop", "layout", "rows", "makedirs"} => Untouched

\* A run that failed in currency formatting (a Fraction unit price) after
\* compute_totals had succeeded: nothing is on disk.
C10_Witness ==
    /\ entry = "generate_invoice" /\ pc = "raised"
    /\ err = Exc("ValueError", "Amount must be numeric")
    /\ totals # <<>>
    /\ Untouched

====
